---------------------------- MODULE Spec2Model ----------------------------
(***************************************************************************)
(* A model of ai-cost-tracker: the pricing resolver and cost calculator    *)
(* (pricing.py), the SQLite storage engine (storage.py) and the tracking   *)
(* entry points (tracker.py).                                              *)
(*                                                                         *)
(* Money.  The code computes with Python floats (IEEE-754 doubles).  TLC   *)
(* has integers only, so every USD amount is carried as an exact integer   *)
(* number of 1e-8 USD: a rate r USD per 1M tokens is the integer 100*r     *)
(* and  tokens/1e6 * r  USD is  tokens * (100*r)  units.  The rounding of  *)
(* double arithmetic is therefore not modelled.                            *)
(*                                                                         *)
(* Text.  Model names and stored timestamps are TLA+ strings, handled      *)
(* character by character (Len, SubSeq, \o) as the code handles them.      *)
(***************************************************************************)
EXTENDS Integers, Sequences, FiniteSets, TLC

VARIABLES
    files,      \* the database files: path -> the cost_logs table in the file
    logged,     \* history: path -> the CostLogs stored there and the call that stored each
    storage,    \* the SQLiteStorage in use (tracker._storage): <<>> or <<its db_path>>
    org_id,     \* tracker._org_id
    last,       \* the last call made and what it returned or raised
    pc,         \* thread -> the call it is in, where it is in it, its locals
    lock,       \* SQLiteStorage._lock: <<>> or <<the thread that holds it>>
    txn,        \* the rows INSERTed through _conn and not yet committed
    instances   \* every SQLiteStorage the threads constructed: its db_path and the call that made it

vars == <<files, logged, storage, org_id, last, pc, lock, txn, instances>>

\* what only the threads change
threads == <<pc, lock, txn, instances>>

-----------------------------------------------------------------------------
(* Bounds of the model *)

\* the largest token count and latency tried
MaxTokens == 2
\* the most rows the model store grows to
MaxRows == 3
\* the largest LIMIT tried
MaxLimit == 2
\* the threads that call concurrently
MaxThreads == 2

-----------------------------------------------------------------------------
(* Python values *)

Ok(v) == [ok |-> TRUE, value |-> v]
Raise(kind, msg) == [ok |-> FALSE, error |-> kind, message |-> msg]

RECURSIVE SumSeq(_)
SumSeq(s) == IF s = <<>> THEN 0 ELSE Head(s) + SumSeq(Tail(s))

Range(s) == {s[i] : i \in DOMAIN s}

\* Local([v \in {x} |-> e]) is e with the local variable v assigned x, which
\* is evaluated once
Local(f) == CHOOSE y \in UNION {Range(g) : g \in {f}} : TRUE

-----------------------------------------------------------------------------
(* Text: str.strip, str.lower, str.replace, str.startswith, `in` *)

UpperCase == "ABCDEFGHIJKLMNOPQRSTUVWXYZ"
LowerCase == "abcdefghijklmnopqrstuvwxyz"

Char(s, i) == SubSeq(s, i, i)

IsSpace(c) == c \in {" ", "\t", "\n"}

\* str.lower() of one character
lower_char(c) ==
    IF \E i \in 1..Len(UpperCase) : Char(UpperCase, i) = c
    THEN Char(LowerCase, CHOOSE i \in 1..Len(UpperCase) : Char(UpperCase, i) = c)
    ELSE c

RECURSIVE str_lower(_)
str_lower(s) == IF Len(s) = 0 THEN "" ELSE lower_char(Head(s)) \o str_lower(Tail(s))

RECURSIVE str_replace(_, _, _)
\* str.replace(old, new) for a one-character old
str_replace(s, old, new) ==
    IF Len(s) = 0 THEN ""
    ELSE (IF Head(s) = old THEN new ELSE Head(s)) \o str_replace(Tail(s), old, new)

RECURSIVE str_lstrip(_)
str_lstrip(s) == IF Len(s) > 0 /\ IsSpace(Head(s)) THEN str_lstrip(Tail(s)) ELSE s

RECURSIVE str_rstrip(_)
str_rstrip(s) ==
    IF Len(s) > 0 /\ IsSpace(Char(s, Len(s)))
    THEN str_rstrip(SubSeq(s, 1, Len(s) - 1))
    ELSE s

str_strip(s) == str_rstrip(str_lstrip(s))

startswith(s, prefix) ==
    Len(prefix) <= Len(s) /\ SubSeq(s, 1, Len(prefix)) = prefix

\* Python's `sub in s`
contains(s, sub) ==
    \E i \in 1..(Len(s) - Len(sub) + 1) : SubSeq(s, i, i + Len(sub) - 1) = sub

-----------------------------------------------------------------------------
(* pricing.py *)

\* The keys of PRICING in the dict's insertion order.
PRICING_KEYS ==
    << "gpt-4", "gpt-4-turbo", "gpt-4o", "gpt-4o-mini", "gpt-3.5-turbo",
       "claude-opus-4", "claude-sonnet-4", "claude-sonnet-3.5", "claude-haiku-3.5" >>

\* USD per 1M tokens (input, output), times 100.
PRICING(key) ==
    CASE key = "gpt-4"             -> <<3000, 6000>>
      [] key = "gpt-4-turbo"       -> <<1000, 3000>>
      [] key = "gpt-4o"            -> <<500, 1500>>
      [] key = "gpt-4o-mini"       -> <<15, 60>>
      [] key = "gpt-3.5-turbo"     -> <<50, 150>>
      [] key = "claude-opus-4"     -> <<1500, 7500>>
      [] key = "claude-sonnet-4"   -> <<300, 1500>>
      [] key = "claude-sonnet-3.5" -> <<300, 1500>>
      [] key = "claude-haiku-3.5"  -> <<80, 400>>

\* _ALIASES.items() in insertion order: (alias prefix, canonical key)
ALIASES ==
    << <<"claude-3-5-sonnet", "claude-sonnet-3.5">>,
       <<"claude-3-5-haiku", "claude-haiku-3.5">>,
       <<"claude-3-opus", "claude-opus-4">> >>

normalize_model_name(model) == str_replace(str_lower(str_strip(model)), "_", "-")

RECURSIVE insert_by_len(_, _)
\* k goes behind every element at least as long: sorted() is stable, and
\* reverse=True keeps the original order of equal elements.
insert_by_len(sorted, k) ==
    IF sorted = <<>> THEN <<k>>
    ELSE IF Len(Head(sorted)) >= Len(k)
         THEN <<Head(sorted)>> \o insert_by_len(Tail(sorted), k)
         ELSE <<k>> \o sorted

RECURSIVE sorted_by_len_desc(_)
\* sorted(keys, key=len, reverse=True)
sorted_by_len_desc(keys) ==
    IF keys = <<>> THEN <<>>
    ELSE insert_by_len(sorted_by_len_desc(SubSeq(keys, 1, Len(keys) - 1)),
                       keys[Len(keys)])

keys_by_specificity == sorted_by_len_desc(PRICING_KEYS)

\* resolve_model_key with the keys tried in table order instead of longest first
resolve_model_key_unsorted(model) ==
    Local([normalized \in {normalize_model_name(model)} |->
    LET aliasHits == {i \in DOMAIN ALIASES : startswith(normalized, ALIASES[i][1])}
        fuzzyHits == {i \in DOMAIN PRICING_KEYS :
                        \/ startswith(normalized, PRICING_KEYS[i])
                        \/ contains(normalized, PRICING_KEYS[i])}
        first(S) == CHOOSE i \in S : \A j \in S : i <= j
    IN  IF normalized \in Range(PRICING_KEYS) THEN Ok(normalized)
        ELSE IF aliasHits # {} THEN Ok(ALIASES[first(aliasHits)][2])
        ELSE IF fuzzyHits # {} THEN Ok(PRICING_KEYS[first(fuzzyHits)])
        ELSE Raise("ValueError", "Unsupported model for pricing")])

\* resolve_model_key with the fuzzy step matching prefixes only
resolve_model_key_prefix_only(model) ==
    Local([normalized \in {normalize_model_name(model)} |->
    LET aliasHits == {i \in DOMAIN ALIASES : startswith(normalized, ALIASES[i][1])}
        fuzzyHits == {i \in DOMAIN keys_by_specificity :
                        startswith(normalized, keys_by_specificity[i])}
        first(S) == CHOOSE i \in S : \A j \in S : i <= j
    IN  IF normalized \in Range(PRICING_KEYS) THEN Ok(normalized)
        ELSE IF aliasHits # {} THEN Ok(ALIASES[first(aliasHits)][2])
        ELSE IF fuzzyHits # {} THEN Ok(keys_by_specificity[first(fuzzyHits)])
        ELSE Raise("ValueError", "Unsupported model for pricing")])

resolve_model_key(model) ==
    Local([normalized \in {normalize_model_name(model)} |->
    LET aliasHits == {i \in DOMAIN ALIASES : startswith(normalized, ALIASES[i][1])}
        fuzzyHits == {i \in DOMAIN keys_by_specificity :
                        \/ startswith(normalized, keys_by_specificity[i])
                        \/ contains(normalized, keys_by_specificity[i])}
        first(S) == CHOOSE i \in S : \A j \in S : i <= j
    IN  IF normalized \in Range(PRICING_KEYS) THEN Ok(normalized)
        ELSE IF aliasHits # {} THEN Ok(ALIASES[first(aliasHits)][2])
        ELSE IF fuzzyHits # {} THEN Ok(keys_by_specificity[first(fuzzyHits)])
        ELSE Raise("ValueError", "Unsupported model for pricing")])

get_model_pricing(model) ==
    Local([key \in {resolve_model_key(model)} |->
        IF key.ok THEN Ok(PRICING(key.value)) ELSE key])

\* calculate_cost with the two rates exchanged
calculate_cost_swapped(model, tokens_in, tokens_out) ==
    IF tokens_in < 0 \/ tokens_out < 0
    THEN Raise("ValueError", "Token counts must be non-negative")
    ELSE Local([pricing \in {get_model_pricing(model)} |->
             IF ~pricing.ok THEN pricing
             ELSE Ok(tokens_in * pricing.value[2] + tokens_out * pricing.value[1])])

calculate_cost(model, tokens_in, tokens_out) ==
    IF tokens_in < 0 \/ tokens_out < 0
    THEN Raise("ValueError", "Token counts must be non-negative")
    ELSE Local([pricing \in {get_model_pricing(model)} |->
             IF ~pricing.ok THEN pricing
             ELSE LET input_cost == tokens_in * pricing.value[1]
                      output_cost == tokens_out * pricing.value[2]
                  IN  Ok(input_cost + output_cost)])

-----------------------------------------------------------------------------
(* The callers of pricing.py: the model names and token counts tried *)

ModelPrefixes == {"", " ", "x-"}

ModelBases ==
    Range(PRICING_KEYS) \cup {ALIASES[i][1] : i \in DOMAIN ALIASES}
    \cup {"GPT_4", "Claude_Sonnet_4", "not-a-real-model", "gpt", "claude-3", "unknown", ""}

ModelSuffixes ==
    {"", "-0125-preview", "-turbo", "-mini", "-turbo-preview", "-mini-2024-07-18",
     "-20250514", "-gpt-3.5-turbo", "-claude-opus-4", "-claude-3-opus", "-32K ", "o", ".1"}

ModelInputs == {p \o b \o s : p \in ModelPrefixes, b \in ModelBases, s \in ModelSuffixes}

TokenInputs == -1..MaxTokens

NoCall == [op |-> "none"]

\* The caller is sequential: it makes a call when none is outstanding, and
\* takes the outcome before it makes the next.
Idle == last = NoCall

Return ==
    /\ ~Idle
    /\ last' = NoCall
    /\ UNCHANGED <<files, logged, storage, org_id>>
    /\ UNCHANGED threads

CallGetModelPricing ==
    /\ Idle
    /\ \E m \in ModelInputs :
          last' = [op |-> "get_model_pricing", model |-> m, result |-> get_model_pricing(m)]
    /\ UNCHANGED <<files, logged, storage, org_id>>
    /\ UNCHANGED threads

CallCalculateCost ==
    /\ Idle
    /\ \E m \in ModelInputs, ti \in TokenInputs, to \in TokenInputs :
          last' = [op |-> "calculate_cost", model |-> m, tokens_in |-> ti,
                   tokens_out |-> to, result |-> calculate_cost(m, ti, to)]
    /\ UNCHANGED <<files, logged, storage, org_id>>
    /\ UNCHANGED threads

-----------------------------------------------------------------------------
(* models.py: CostLog, and the datetimes the callers use *)

\* datetime(2024, 1, day, hour, 0, 0, micro, tzinfo=timezone.utc)
DT(day, hour, micro) == [day |-> day, hour |-> hour, micro |-> micro]

Digits == "0123456789"
Digit(d) == Char(Digits, d + 1)

RECURSIVE zero_padded(_, _)
\* the decimal digits of n, zero-filled to the given width
zero_padded(n, width) ==
    IF width = 0 THEN "" ELSE zero_padded(n \div 10, width - 1) \o Digit(n % 10)

\* datetime.isoformat(sep) of an aware UTC datetime: the fraction is printed
\* only when microsecond is not 0
isoformat(dt, sep) ==
    "2024-01-" \o zero_padded(dt.day, 2) \o sep \o zero_padded(dt.hour, 2) \o ":00:00"
    \o (IF dt.micro = 0 THEN "" ELSE "." \o zero_padded(dt.micro, 6))
    \o "+00:00"

\* a <= b as instants
dt_le(a, b) ==
    \/ a.day < b.day
    \/ a.day = b.day /\ a.hour < b.hour
    \/ a.day = b.day /\ a.hour = b.hour /\ a.micro <= b.micro

\* dataclass CostLog: the fields are stored as given, nothing is validated
CostLog(user_id, feature, model, tokens_in, tokens_out, cost_usd, latency_ms, timestamp, org, metadata) ==
    [user_id |-> user_id, feature |-> feature, model |-> model,
     tokens_in |-> tokens_in, tokens_out |-> tokens_out, cost_usd |-> cost_usd,
     latency_ms |-> latency_ms, timestamp |-> timestamp, org_id |-> org,
     metadata |-> metadata]

-----------------------------------------------------------------------------
(* storage.py: SQLiteStorage over a database file *)

\* a path with no database file yet
NoFile == [schema |-> FALSE, rows |-> <<>>, seq |-> 0]

\* _init_db as DROP TABLE and CREATE TABLE: an existing table is emptied
init_db_recreate(file) == [schema |-> TRUE, rows |-> <<>>, seq |-> 0]

\* CREATE TABLE IF NOT EXISTS / CREATE INDEX IF NOT EXISTS, commit
init_db(file) == IF file.schema THEN file ELSE [file EXCEPT !.schema = TRUE]

RECURSIVE json_pairs(_)
json_pairs(d) ==
    IF d = <<>> THEN ""
    ELSE "\"" \o d[1][1] \o "\": \"" \o d[1][2] \o "\""
         \o (IF Len(d) > 1 THEN ", " ELSE "") \o json_pairs(Tail(d))

\* json.dumps of a dict of strings, given as its (key, value) pairs in order
json_dumps(d) == "{" \o json_pairs(d) \o "}"

\* the row INSERTed for a CostLog; AUTOINCREMENT gives it the next id
row_of(cost_log, id) ==
    [id |-> id,
     user_id |-> cost_log.user_id,
     feature |-> cost_log.feature,
     model |-> cost_log.model,
     tokens_in |-> cost_log.tokens_in,
     tokens_out |-> cost_log.tokens_out,
     cost_usd |-> cost_log.cost_usd,
     latency_ms |-> cost_log.latency_ms,
     timestamp |-> isoformat(cost_log.timestamp, "T"),
     org_id |-> cost_log.org_id,
     metadata |-> json_dumps(cost_log.metadata)]

\* log as INSERT OR REPLACE under one fixed id: the earlier rows are lost
log_replace(file, cost_log) ==
    [file EXCEPT !.rows = <<row_of(cost_log, file.seq + 1)>>, !.seq = file.seq + 1]

\* SQLiteStorage.log: INSERT and commit
log(file, cost_log) ==
    [file EXCEPT !.rows = Append(file.rows, row_of(cost_log, file.seq + 1)),
                 !.seq = file.seq + 1]

\* A value bound to a `?`: a str, or a datetime
Str(text) == [type |-> "str", text |-> text, value |-> DT(0, 0, 0)]
Datetime(dt) == [type |-> "datetime", text |-> "", value |-> dt]

\* sqlite3 binds a str as it is and a datetime through its default adapter,
\* which is isoformat(" ")
sqlite_adapt(v) == IF v.type = "datetime" THEN isoformat(v.value, " ") ELSE v.text

\* the characters of stored timestamps in the order of their codes
CodeOrder == " +-.0123456789:T"
Ord(c) == CHOOSE i \in 1..Len(CodeOrder) : Char(CodeOrder, i) = c

RECURSIVE text_le(_, _)
\* a <= b for TEXT values under SQLite's BINARY collation
text_le(a, b) ==
    IF Len(a) = 0 THEN TRUE
    ELSE IF Len(b) = 0 THEN FALSE
    ELSE IF Head(a) = Head(b) THEN text_le(Tail(a), Tail(b))
    ELSE Ord(Head(a)) < Ord(Head(b))

simple_fields == <<"user_id", "feature", "org_id", "model">>

\* filters.get(field): <<>> stands for None and for a missing key
filters_get(filters, field) == filters[1][field]

RECURSIVE simple_clauses(_, _)
simple_clauses(filters, fields) ==
    IF fields = <<>> THEN <<>>
    ELSE (IF filters_get(filters, Head(fields)) # <<>>
          THEN << [column |-> Head(fields), op |-> "=",
                   param |-> filters_get(filters, Head(fields))[1]] >>
          ELSE <<>>)
         \o simple_clauses(filters, Tail(fields))

\* _build_where_clause: the clauses joined by AND, each with the parameter
\* bound to its `?`; <<>> is the empty where_sql
build_where_clause(filters) ==
    IF filters = <<>> \/ \A f \in DOMAIN filters[1] : filters[1][f] = <<>>
    THEN <<>>
    ELSE simple_clauses(filters, simple_fields)
         \o (IF filters_get(filters, "start_time") # <<>>
             THEN << [column |-> "timestamp", op |-> ">=",
                      param |-> filters_get(filters, "start_time")[1]] >>
             ELSE <<>>)
         \o (IF filters_get(filters, "end_time") # <<>>
             THEN << [column |-> "timestamp", op |-> "<=",
                      param |-> filters_get(filters, "end_time")[1]] >>
             ELSE <<>>)

\* one comparison of the WHERE clause on one row
clause_holds(row, clause) ==
    LET column == row[clause.column]
        bound == sqlite_adapt(clause.param)
    IN  CASE clause.op = "="  -> column = bound
          [] clause.op = ">=" -> text_le(bound, column)
          [] clause.op = "<=" -> text_le(column, bound)

\* FROM cost_logs WHERE c1 AND c2 AND ...
where_rows(file, where_sql) ==
    SelectSeq(file.rows, LAMBDA row : \A i \in DOMAIN where_sql : clause_holds(row, where_sql[i]))

RECURSIVE sum_cost(_)
sum_cost(rs) == IF rs = <<>> THEN 0 ELSE Head(rs).cost_usd + sum_cost(Tail(rs))

\* SUM(cost_usd): NULL, written <<>>, over no rows
sql_sum(rs) == IF rs = <<>> THEN <<>> ELSE <<sum_cost(rs)>>

coalesce(x, default) == IF x = <<>> THEN default ELSE x[1]

\* get_total_cost: SELECT COALESCE(SUM(cost_usd), 0.0)
get_total_cost(file, filters) ==
    coalesce(sql_sum(where_rows(file, build_where_clause(filters))), 0)

\* GROUP BY column: one (key, SUM(cost_usd), COUNT( * )) per distinct value
group_by(rs, column) ==
    { LET members == SelectSeq(rs, LAMBDA row : row[column] = key)
      IN  <<key, sum_cost(members), Len(members)>> : key \in {rs[i][column] : i \in DOMAIN rs} }

\* ORDER BY total ASC
order_by_total_asc(groups) ==
    { s \in [1..Cardinality(groups) -> groups] :
        /\ \A i, j \in DOMAIN s : i # j => s[i] # s[j]
        /\ \A i \in DOMAIN s : i > 1 => s[i - 1][2] <= s[i][2] }

\* ORDER BY total DESC: every order of the groups with non-increasing totals
\* (SQL leaves the order of equal totals open)
order_by_total_desc(groups) ==
    { s \in [1..Cardinality(groups) -> groups] :
        /\ \A i, j \in DOMAIN s : i # j => s[i] # s[j]
        /\ \A i \in DOMAIN s : i > 1 => s[i - 1][2] >= s[i][2] }

\* LIMIT n + 1
sql_limit_off_by_one(s, n) ==
    IF n < 0 \/ n + 1 >= Len(s) THEN s ELSE SubSeq(s, 1, n + 1)

\* LIMIT n: the first n rows; SQLite reads a negative n as no limit
sql_limit(s, n) ==
    IF n < 0 \/ n >= Len(s) THEN s ELSE SubSeq(s, 1, n)

\* the results SELECT <column>, SUM, COUNT ... GROUP BY <column>
\* ORDER BY total DESC LIMIT ? may return
top_by(file, column, limit, filters) ==
    { sql_limit(s, limit) :
        s \in order_by_total_desc(
                 group_by(where_rows(file, build_where_clause(filters)), column)) }

get_top_users(file, limit, filters) == top_by(file, "user_id", limit, filters)

get_top_features(file, limit, filters) == top_by(file, "feature", limit, filters)
-----------------------------------------------------------------------------
(* The callers of storage.py: the records, filters and limits tried *)

Paths == {"ai_cost_tracker.db", "costs.db"}

T1 == DT(1, 10, 0)
T2 == DT(1, 12, 0)
T3 == DT(1, 12, 5)
T4 == DT(2, 10, 0)

EnvTest == << <<"env", "test">> >>

\* The records handed to SQLiteStorage.log directly: the three of
\* test_storage_log_query_and_rankings, one whose cost is calculate_cost of its
\* fields and equals the third's, and one with negative numbers.
CostLogs ==
    { CostLog("alice", "chat", "gpt-4o-mini", 100, 200, 20000, 120, T1, "org-1", EnvTest),
      CostLog("bob", "summary", "claude-sonnet-3.5", 300, 500, 140000, 90, T2, "org-1", EnvTest),
      CostLog("alice", "summary", "gpt-4o-mini", 200, 100, 9000, 70, T3, "org-1", EnvTest),
      CostLog("carol", "chat", "gpt-4", 1, 1, 9000, 0, T2, "org-2", <<>>),
      CostLog("bob", "chat", "gpt-4o-mini", -5, 1, -8, -3, T4, "org-2", <<>>) }

Maybe(v) == {<<>>, <<v>>}

\* filters=None, and the dicts that give or leave out each key
FilterInputs ==
    {<<>>} \cup
    { << [user_id |-> u, feature |-> f, org_id |-> o, model |-> m,
          start_time |-> s, end_time |-> e] >> :
        u \in Maybe(Str("alice")), f \in Maybe(Str("summary")),
        o \in Maybe(Str("org-1")), m \in Maybe(Str("gpt-4o-mini")),
        s \in Maybe(Str(isoformat(T2, "T"))) \cup Maybe(Datetime(T2)),
        e \in Maybe(Str(isoformat(T2, "T"))) \cup Maybe(Datetime(T2)) }

LimitInputs == -1..MaxLimit

\* the file behind the SQLiteStorage in use
db == files[storage[1]]

matched_ids(file, filters) ==
    LET rs == where_rows(file, build_where_clause(filters))
    IN  {rs[i].id : i \in DOMAIN rs}

\* storage.log(cost_log) by a caller that built the CostLog itself
Log ==
    /\ Idle
    /\ storage # <<>>
    /\ Len(db.rows) < MaxRows
    /\ \E c \in CostLogs :
          /\ files' = [files EXCEPT ![storage[1]] = log(@, c)]
          /\ logged' = [logged EXCEPT ![storage[1]] = Append(@, [by |-> "log", cost_log |-> c])]
          /\ last' = [op |-> "log", cost_log |-> c, result |-> Ok("None")]
    /\ UNCHANGED <<storage, org_id>>
    /\ UNCHANGED threads

CallGetTotalCost ==
    /\ Idle
    /\ storage # <<>>
    /\ \E f \in FilterInputs :
          last' = [op |-> "get_total_cost", filters |-> f, limit |-> 0,
                   matched |-> matched_ids(db, f),
                   result |-> Ok(get_total_cost(db, f))]
    /\ UNCHANGED <<files, logged, storage, org_id>>
    /\ UNCHANGED threads

CallGetTopUsers ==
    /\ Idle
    /\ storage # <<>>
    /\ \E f \in FilterInputs, limit \in LimitInputs :
          \E result \in get_top_users(db, limit, f) :
             last' = [op |-> "get_top_users", filters |-> f, limit |-> limit,
                      matched |-> matched_ids(db, f), result |-> Ok(result)]
    /\ UNCHANGED <<files, logged, storage, org_id>>
    /\ UNCHANGED threads

CallGetTopFeatures ==
    /\ Idle
    /\ storage # <<>>
    /\ \E f \in FilterInputs, limit \in LimitInputs :
          \E result \in get_top_features(db, limit, f) :
             last' = [op |-> "get_top_features", filters |-> f, limit |-> limit,
                      matched |-> matched_ids(db, f), result |-> Ok(result)]
    /\ UNCHANGED <<files, logged, storage, org_id>>
    /\ UNCHANGED threads

-----------------------------------------------------------------------------
(* tracker.py *)

\* the path get_storage opens when no storage was initialized
DefaultPath == "ai_cost_tracker.db"

\* SQLiteStorage(db_path): connect, which creates the file, and _init_db
SQLiteStorage(fs, db_path) == [fs EXCEPT ![db_path] = init_db(@)]

\* init_tracker: the new (_storage, files); _org_id is set by the caller below
init_tracker(fs, storage_path) ==
    [files |-> SQLiteStorage(fs, storage_path), storage |-> <<storage_path>>]

\* get_storage: the (_storage, files) after the call; _storage is what it returns
get_storage(fs, st) ==
    IF st = <<>>
    THEN [files |-> SQLiteStorage(fs, DefaultPath), storage |-> <<DefaultPath>>]
    ELSE [files |-> fs, storage |-> st]

\* `x or default` for an optional str: None and "" are falsy
str_or(x, default) == IF x = <<>> \/ x[1] = "" THEN default ELSE x[1]

\* track_manual without its own checks of the arguments
track_manual_unchecked(fs, st, org, clock, a) ==
    Local([cost \in {calculate_cost(a.model, a.tokens_in, a.tokens_out)} |->
        IF ~cost.ok THEN [result |-> cost, files |-> fs, storage |-> st]
        ELSE LET entry == CostLog(a.user_id, a.feature, a.model, a.tokens_in,
                                  a.tokens_out, cost.value, a.latency_ms, clock,
                                  str_or(a.org_id, org),
                                  IF a.metadata = <<>> THEN <<>> ELSE a.metadata[1])
                 gs == get_storage(fs, st)
             IN  [result |-> Ok(entry),
                  files |-> [gs.files EXCEPT ![gs.storage[1]] = log(@, entry)],
                  storage |-> gs.storage]])

\* track_manual pricing the call with the token counts exchanged
track_manual_swapped(fs, st, org, clock, a) ==
    IF a.tokens_in < 0 \/ a.tokens_out < 0
    THEN [result |-> Raise("ValueError", "tokens_in and tokens_out must be non-negative"),
          files |-> fs, storage |-> st]
    ELSE IF a.latency_ms < 0
    THEN [result |-> Raise("ValueError", "latency_ms must be non-negative"),
          files |-> fs, storage |-> st]
    ELSE
    Local([cost \in {calculate_cost(a.model, a.tokens_out, a.tokens_in)} |->
        IF ~cost.ok THEN [result |-> cost, files |-> fs, storage |-> st]
        ELSE LET entry == CostLog(a.user_id, a.feature, a.model, a.tokens_in,
                                  a.tokens_out, cost.value, a.latency_ms, clock,
                                  str_or(a.org_id, org),
                                  IF a.metadata = <<>> THEN <<>> ELSE a.metadata[1])
                 gs == get_storage(fs, st)
             IN  [result |-> Ok(entry),
                  files |-> [gs.files EXCEPT ![gs.storage[1]] = log(@, entry)],
                  storage |-> gs.storage]])

\* track_manual(user_id, feature, model, tokens_in, tokens_out, latency_ms,
\* metadata, org_id) with _storage = st, _org_id = org, the clock at `clock`:
\* what it returns or raises, and the files and _storage it leaves
track_manual(fs, st, org, clock, a) ==
    IF a.tokens_in < 0 \/ a.tokens_out < 0
    THEN [result |-> Raise("ValueError", "tokens_in and tokens_out must be non-negative"),
          files |-> fs, storage |-> st]
    ELSE IF a.latency_ms < 0
    THEN [result |-> Raise("ValueError", "latency_ms must be non-negative"),
          files |-> fs, storage |-> st]
    ELSE
    Local([cost \in {calculate_cost(a.model, a.tokens_in, a.tokens_out)} |->
        IF ~cost.ok THEN [result |-> cost, files |-> fs, storage |-> st]
        ELSE LET entry == CostLog(a.user_id, a.feature, a.model, a.tokens_in,
                                  a.tokens_out, cost.value, a.latency_ms, clock,
                                  str_or(a.org_id, org),
                                  IF a.metadata = <<>> THEN <<>> ELSE a.metadata[1])
                 gs == get_storage(fs, st)
             IN  [result |-> Ok(entry),
                  files |-> [gs.files EXCEPT ![gs.storage[1]] = log(@, entry)],
                  storage |-> gs.storage]])

\* A token count found in a response: an int, or something int() rejects
AnInt(n) == [int |-> TRUE, n |-> n]
NotAnInt == [int |-> FALSE, n |-> 0]

int_value(value) == IF value.int THEN value.n ELSE 0

\* usage.get(first, 0): the second name is not tried
usage_get_first_only(usage, first, second) ==
    IF usage[first] # <<>> THEN usage[first][1] ELSE AnInt(0)

\* usage.get(first, usage.get(second, 0)) and getattr(usage, first,
\* getattr(usage, second, 0)): <<>> is a missing key or attribute
usage_get(usage, first, second) ==
    IF usage[first] # <<>> THEN usage[first][1]
    ELSE IF usage[second] # <<>> THEN usage[second][1]
    ELSE AnInt(0)

NoUsage ==
    [prompt_tokens |-> <<>>, completion_tokens |-> <<>>,
     input_tokens |-> <<>>, output_tokens |-> <<>>]

\* _extract_usage: (model, tokens_in, tokens_out), or ValueError
extract_usage(response) ==
    IF response.kind = "None"
    THEN Raise("ValueError", "Response cannot be None")
    ELSE LET model == IF response.model = <<>> THEN "unknown" ELSE response.model[1]
         IN  IF response.kind = "dict"
             THEN LET usage == IF response.usage = <<>> THEN NoUsage ELSE response.usage[1]
                  IN  Ok(<<model,
                           int_value(usage_get(usage, "prompt_tokens", "input_tokens")),
                           int_value(usage_get(usage, "completion_tokens", "output_tokens"))>>)
             ELSE IF response.usage = <<>>
             THEN Raise("ValueError", "Response does not contain usage information")
             ELSE LET usage == response.usage[1]
                  IN  Ok(<<model,
                           int_value(usage_get(usage, "prompt_tokens", "input_tokens")),
                           int_value(usage_get(usage, "completion_tokens", "output_tokens"))>>)

\* A FieldValue: a str, or a callable that returns one or raises
Literal(v) == [callable |-> FALSE, raises |-> FALSE, value |-> v]
Callable(v) == [callable |-> TRUE, raises |-> FALSE, value |-> v]
Raising == [callable |-> TRUE, raises |-> TRUE, value |-> ""]

\* _resolve_field
resolve_field(value, fallback) ==
    IF value.raises THEN fallback
    ELSE IF value.value = "" THEN fallback ELSE value.value

\* _resolve_metadata: <<>> is metadata=None
resolve_metadata(metadata) ==
    IF metadata = <<>> THEN <<>>
    ELSE IF metadata[1].raises THEN <<>>
    ELSE metadata[1].value

\* _safe_log_response without its try / except: what the body raises reaches
\* the wrapper
safe_log_response_uncaught(fs, st, org, clock, response, user_id, feature, metadata, latency_ms) ==
    Local([usage \in {extract_usage(response)} |->
        IF ~usage.ok
        THEN [files |-> fs, storage |-> st, entry |-> <<>>, logged_error |-> <<>>,
              raised |-> <<usage>>]
        ELSE Local([r \in {track_manual(fs, st, org, clock,
                         [user_id |-> resolve_field(user_id, "unknown_user"),
                          feature |-> resolve_field(feature, "unknown_feature"),
                          model |-> usage.value[1],
                          tokens_in |-> usage.value[2],
                          tokens_out |-> usage.value[3],
                          latency_ms |-> latency_ms,
                          metadata |-> <<resolve_metadata(metadata)>>,
                          org_id |-> <<>>])} |->
                  [files |-> r.files, storage |-> r.storage,
                   entry |-> IF r.result.ok THEN <<r.result.value>> ELSE <<>>,
                   logged_error |-> <<>>,
                   raised |-> IF r.result.ok THEN <<>> ELSE <<r.result>>]])])

\* _safe_log_response: `except Exception` takes what _extract_usage and
\* track_manual raise and logs it, so nothing is raised to the wrapper; entry
\* is the record it stored, if it stored one
safe_log_response(fs, st, org, clock, response, user_id, feature, metadata, latency_ms) ==
    Local([usage \in {extract_usage(response)} |->
        IF ~usage.ok
        THEN [files |-> fs, storage |-> st, entry |-> <<>>, logged_error |-> <<usage>>,
              raised |-> <<>>]
        ELSE Local([r \in {track_manual(fs, st, org, clock,
                         [user_id |-> resolve_field(user_id, "unknown_user"),
                          feature |-> resolve_field(feature, "unknown_feature"),
                          model |-> usage.value[1],
                          tokens_in |-> usage.value[2],
                          tokens_out |-> usage.value[3],
                          latency_ms |-> latency_ms,
                          metadata |-> <<resolve_metadata(metadata)>>,
                          org_id |-> <<>>])} |->
                  [files |-> r.files, storage |-> r.storage,
                   entry |-> IF r.result.ok THEN <<r.result.value>> ELSE <<>>,
                   logged_error |-> IF r.result.ok THEN <<>> ELSE <<r.result>>,
                   raised |-> <<>>]])])

-----------------------------------------------------------------------------
(* The callers of tracker.py *)

\* what datetime.now(timezone.utc) may read
Clock == {T2}

\* what int((time.perf_counter() - start) * 1000) may come to
MeasuredLatency == {7}

\* the arguments tried on track_manual
TrackArgs ==
    { [user_id |-> "alice", feature |-> "chat", model |-> m, tokens_in |-> ti,
       tokens_out |-> to, latency_ms |-> l, metadata |-> <<>>, org_id |-> <<>>] :
        m \in {"gpt-4-0125-preview", "not-a-real-model"},
        ti \in {-1, MaxTokens}, to \in {-1, 0}, l \in {-1, 7} }
    \cup
    { [user_id |-> "alice", feature |-> "chat", model |-> "gpt-4-0125-preview",
       tokens_in |-> MaxTokens, tokens_out |-> 0, latency_ms |-> 7, metadata |-> <<>>,
       org_id |-> <<"org-2">>] }

ObjectResponse(model, usage) == [kind |-> "object", model |-> <<model>>, usage |-> usage]

\* the responses of test_decorator_with_mock_openai_response and
\* test_decorator_with_mock_anthropic_response_shape, and ones that cannot be
\* logged: no usage, a negative count, a model without a price
Responses ==
    { ObjectResponse("gpt-4o-mini",
          << [NoUsage EXCEPT !.prompt_tokens = <<AnInt(250)>>, !.completion_tokens = <<AnInt(125)>>] >>),
      ObjectResponse("claude-sonnet-3.5",
          << [NoUsage EXCEPT !.input_tokens = <<AnInt(400)>>, !.output_tokens = <<AnInt(90)>>] >>),
      ObjectResponse("gpt-4o-mini", <<>>),
      ObjectResponse("gpt-4o-mini",
          << [NoUsage EXCEPT !.prompt_tokens = <<AnInt(-1)>>, !.completion_tokens = <<NotAnInt>>] >>),
      [kind |-> "dict", model |-> <<>>, usage |-> <<>>],
      [kind |-> "None", model |-> <<>>, usage |-> <<>>] }

\* the functions decorated with track_costs: the fields given to the
\* decorator, and whether the function raises or which response it returns
Decorated ==
    { [user_id |-> Literal("user-1"), feature |-> Literal("chat"), metadata |-> <<>>,
       raises |-> FALSE, response |-> r] : r \in Responses }
    \cup
    { [user_id |-> Raising, feature |-> Callable(""), metadata |-> <<Raising>>,
       raises |-> FALSE, response |-> r] :
         r \in {ObjectResponse("claude-sonnet-3.5",
                  << [NoUsage EXCEPT !.input_tokens = <<AnInt(400)>>, !.output_tokens = <<AnInt(90)>>] >>)} }
    \cup
    { [user_id |-> Literal("user-1"), feature |-> Literal("chat"), metadata |-> <<>>,
       raises |-> TRUE, response |-> [kind |-> "None", model |-> <<>>, usage |-> <<>>]] }

\* the records a caller of the tracker hands to storage.log itself
DirectLogs ==
    { c \in CostLogs : (c.user_id = "alice" /\ c.feature = "chat") \/ c.tokens_in < 0 }

RECURSIVE CountRows(_, _)
CountRows(fs, paths) ==
    IF paths = {} THEN 0
    ELSE LET p == CHOOSE q \in paths : TRUE
         IN  Len(fs[p].rows) + CountRows(fs, paths \ {p})

\* the model stops adding rows at MaxRows
Room == CountRows(files, Paths) < MaxRows

InitTracker ==
    /\ Idle
    /\ \E storage_path \in {"costs.db"}, org \in {"org-decorator"} :
          \E r \in {init_tracker(files, storage_path)} :
              /\ files' = r.files
              /\ storage' = r.storage
              /\ org_id' = org
              /\ last' = [op |-> "init_tracker", result |-> Ok(r.storage)]
    /\ UNCHANGED logged
    /\ UNCHANGED threads

GetStorage ==
    /\ Idle
    /\ \E r \in {get_storage(files, storage)} :
           /\ files' = r.files
           /\ storage' = r.storage
           /\ last' = [op |-> "get_storage", result |-> Ok(r.storage)]
    /\ UNCHANGED <<logged, org_id>>
    /\ UNCHANGED threads

TrackManual ==
    /\ Idle
    /\ Room
    /\ \E a \in TrackArgs, clock \in Clock :
          \E r \in {track_manual(files, storage, org_id, clock, a)} :
              /\ files' = r.files
              /\ storage' = r.storage
              /\ logged' = IF r.result.ok
                           THEN [logged EXCEPT ![r.storage[1]] =
                                    Append(@, [by |-> "track_manual", cost_log |-> r.result.value])]
                           ELSE logged
              /\ last' = [op |-> "track_manual", args |-> a, result |-> r.result]
    /\ UNCHANGED org_id
    /\ UNCHANGED threads

\* a call of a function decorated with track_costs (sync_wrapper)
CallTracked ==
    /\ Idle
    /\ Room
    /\ \E d \in Decorated, latency_ms \in MeasuredLatency, clock \in Clock :
          IF d.raises
          THEN /\ last' = [op |-> "track_costs", call |-> d,
                           result |-> Raise("Exception", "raised by the wrapped function")]
               /\ UNCHANGED <<files, logged, storage>>
          ELSE \E r \in {safe_log_response(files, storage, org_id, clock, d.response,
                                             d.user_id, d.feature, d.metadata, latency_ms)} :
                   /\ files' = r.files
                   /\ storage' = r.storage
                   /\ logged' = IF r.entry # <<>>
                                THEN [logged EXCEPT ![r.storage[1]] =
                                         Append(@, [by |-> "track_costs", cost_log |-> r.entry[1]])]
                                ELSE logged
                   /\ last' = [op |-> "track_costs", call |-> d,
                                result |-> IF r.raised # <<>> THEN r.raised[1]
                                           ELSE Ok(d.response)]
    /\ UNCHANGED org_id
    /\ UNCHANGED threads

\* storage.log(cost_log) on the tracker's storage, with a CostLog the caller built
LogDirect ==
    /\ Idle
    /\ Room
    /\ storage # <<>>
    /\ \E c \in DirectLogs :
          /\ files' = [files EXCEPT ![storage[1]] = log(@, c)]
          /\ logged' = [logged EXCEPT ![storage[1]] = Append(@, [by |-> "log", cost_log |-> c])]
          /\ last' = [op |-> "log", cost_log |-> c, result |-> Ok("None")]
    /\ UNCHANGED <<storage, org_id>>
    /\ UNCHANGED threads

\* SQLiteStorage(db_path) constructed again on the file of the storage in
\* use, or storage._init_db() called a second time
Reopen ==
    /\ Idle
    /\ storage # <<>>
    /\ \E again \in {"SQLiteStorage", "_init_db"} :
          /\ files' = IF again = "SQLiteStorage"
                       THEN SQLiteStorage(files, storage[1])
                       ELSE [files EXCEPT ![storage[1]] = init_db(@)]
          /\ last' = [op |-> again, db_path |-> storage[1], result |-> Ok("None")]
    /\ UNCHANGED <<logged, storage, org_id>>
    /\ UNCHANGED threads

-----------------------------------------------------------------------------
(* Specifications *)

\* No storage has been made yet.
Init ==
    /\ files = [p \in Paths |-> NoFile]
    /\ logged = [p \in Paths |-> <<>>]
    /\ storage = <<>>
    /\ org_id = "default"
    /\ last = NoCall
    /\ pc = <<>>
    /\ lock = <<>>
    /\ txn = <<>>
    /\ instances = <<>>

\* storage = SQLiteStorage("costs.db") has been constructed on a fresh path.
InitStorage ==
    /\ files = [p \in Paths |-> IF p = "costs.db" THEN init_db(NoFile) ELSE NoFile]
    /\ logged = [p \in Paths |-> <<>>]
    /\ storage = <<"costs.db">>
    /\ org_id = "default"
    /\ last = NoCall
    /\ pc = <<>>
    /\ lock = <<>>
    /\ txn = <<>>
    /\ instances = <<>>

NextStorage ==
    Log \/ CallGetTotalCost \/ CallGetTopUsers \/ CallGetTopFeatures \/ Reopen \/ Return

\* SQLiteStorage used on its own, by one caller
SpecStorage == InitStorage /\ [][NextStorage]_vars

Next ==
    InitTracker \/ GetStorage \/ TrackManual \/ CallTracked \/ LogDirect \/ Return

\* the tracker and its storage, used by one caller
Spec == Init /\ [][Next]_vars

NextPricing == CallGetModelPricing \/ CallCalculateCost \/ Return

SpecPricing == Init /\ [][NextPricing]_vars

-----------------------------------------------------------------------------
(* Properties of pricing.py, checked under SpecPricing *)

IndexOf(seq, x) == CHOOSE i \in DOMAIN seq : seq[i] = x

\* C5: for a resolvable model and non-negative token counts calculate_cost
\* returns tokens_in/1e6 * input_rate + tokens_out/1e6 * output_rate for the
\* rate pair the resolver returns, unrounded, and the result is never negative.
C5_CostFormula ==
    (last.op = "calculate_cost" /\ last.tokens_in >= 0 /\ last.tokens_out >= 0
        /\ get_model_pricing(last.model).ok)
    => LET rates == get_model_pricing(last.model).value
       IN  /\ last.result.ok
           /\ last.result.value = last.tokens_in * rates[1] + last.tokens_out * rates[2]
           /\ last.result.value >= 0

C5_Witness ==
    /\ last.op = "calculate_cost"
    /\ last.model = "gpt-4-0125-preview"
    /\ last.tokens_in = 2 /\ last.tokens_out = 1
    /\ last.result = Ok(2 * 3000 + 1 * 6000)

\* a '-' followed by further characters
VersionSuffixes == {s \in ModelSuffixes : Len(s) >= 2 /\ Head(s) = "-"}

\* C6 as stated: for every canonical key k and every suffix s,
\* get_model_pricing(k + s) returns the rate pair of k.
C6_AnySuffixKeepsKey ==
    \A k \in Range(PRICING_KEYS), s \in VersionSuffixes :
        (last.op = "get_model_pricing" /\ last.model = k \o s)
        => last.result = Ok(PRICING(k))

\* key k2 is tried before key k by the resolver: it is longer, or as long and
\* earlier in the pricing table
RankedBefore(k2, k) ==
    \/ Len(k2) > Len(k)
    \/ Len(k2) = Len(k) /\ IndexOf(PRICING_KEYS, k2) < IndexOf(PRICING_KEYS, k)

\* C6 amended: get_model_pricing(k + s) returns the rate pair of k unless the
\* normalized k + s contains (or is) another canonical key that is longer than
\* k, or as long as k and earlier in the pricing table.
C6_SuffixKeepsKey ==
    \A k \in Range(PRICING_KEYS), s \in VersionSuffixes :
        (/\ last.op = "get_model_pricing"
         /\ last.model = k \o s
         /\ ~\E k2 \in Range(PRICING_KEYS) :
                /\ RankedBefore(k2, k)
                /\ contains(normalize_model_name(k \o s), k2))
        => last.result = Ok(PRICING(k))

\* a shorter key (gpt-4) and an equally long later key (claude-opus-4) occur
\* in the input and the suffixed key still wins
C6_Witness ==
    /\ last.op = "get_model_pricing"
    /\ last.model \in {"gpt-4o-mini-2024-07-18", "gpt-3.5-turbo-claude-opus-4"}
    /\ last.result \in {Ok(PRICING("gpt-4o-mini")), Ok(PRICING("gpt-3.5-turbo"))}

NoMatch(normalized) ==
    /\ normalized \notin Range(PRICING_KEYS)
    /\ \A i \in DOMAIN ALIASES : ~startswith(normalized, ALIASES[i][1])
    /\ \A k \in Range(PRICING_KEYS) : ~contains(normalized, k)

\* C7: get_model_pricing raises the unsupported-model error exactly when the
\* normalized input is no canonical key, starts with no alias prefix and
\* contains no canonical key; otherwise it returns a rate pair of the table.
C7_UnsupportedExactly ==
    last.op = "get_model_pricing"
    => IF NoMatch(normalize_model_name(last.model))
       THEN last.result = Raise("ValueError", "Unsupported model for pricing")
       ELSE /\ last.result.ok
            /\ \E k \in Range(PRICING_KEYS) : last.result.value = PRICING(k)

C7_Witness ==
    /\ last.op = "get_model_pricing"
    /\ last.model = " not-a-real-model-32K "
    /\ ~last.result.ok

-----------------------------------------------------------------------------
(* Properties of storage.py, checked under SpecStorage *)

IsQuery == last.op \in {"get_total_cost", "get_top_users", "get_top_features"}
IsTop == last.op \in {"get_top_users", "get_top_features"}

NoFilters(filters) ==
    filters = <<>> \/ \A f \in DOMAIN filters[1] : filters[1][f] = <<>>

RECURSIVE SumCostUsd(_)
\* the sum of cost_usd over a set of records
SumCostUsd(S) ==
    IF S = {} THEN 0
    ELSE LET x == CHOOSE y \in S : TRUE IN x.cost_usd + SumCostUsd(S \ {x})

\* what the store in use was given, by position
Logged == logged[storage[1]]

\* C1: after any sequence of log calls get_total_cost without filters is the
\* sum of cost_usd of every record logged, and get_total_cost returns 0 when
\* the store is empty or the filters select no row.
C1_TotalIsSumOfLogged ==
    last.op = "get_total_cost"
    => /\ last.result.ok
       /\ NoFilters(last.filters)
            => last.result.value = SumCostUsd({[i |-> i, cost_usd |-> Logged[i].cost_log.cost_usd] : i \in DOMAIN Logged})
       /\ (db.rows = <<>> \/ last.matched = {}) => last.result.value = 0

C1_Witness ==
    /\ last.op = "get_total_cost"
    /\ last.filters = <<>>
    /\ Len(Logged) = 3
    /\ last.result = Ok(20000 + 140000 + 9000)

\* the instant a bound stands for: the datetime itself, or the one an
\* ISO-8601 string names
InstantOf(param) ==
    IF param.type = "datetime" THEN param.value
    ELSE CHOOSE t \in {T1, T2, T3, T4} : isoformat(t, "T") = param.text

\* the stored row of record i satisfies every predicate that filters supplies
Satisfies(i, filters) ==
    \/ filters = <<>>
    \/ LET f == filters[1]
           r == db.rows[i]
       IN  /\ f.user_id # <<>> => r.user_id = f.user_id[1].text
           /\ f.feature # <<>> => r.feature = f.feature[1].text
           /\ f.org_id # <<>> => r.org_id = f.org_id[1].text
           /\ f.model # <<>> => r.model = f.model[1].text
           /\ f.start_time # <<>> => dt_le(InstantOf(f.start_time[1]), Logged[i].cost_log.timestamp)
           /\ f.end_time # <<>> => dt_le(Logged[i].cost_log.timestamp, InstantOf(f.end_time[1]))

\* C2: the rows each of the three queries aggregates are exactly the stored
\* rows that satisfy every supplied predicate: equality on user_id, feature,
\* org_id and model, start_time <= timestamp and timestamp <= end_time.
C2_FiltersSelectExactly ==
    IsQuery => last.matched = {db.rows[i].id : i \in {j \in DOMAIN db.rows : Satisfies(j, last.filters)}}

TimeBoundsAreText(filters) ==
    \/ filters = <<>>
    \/ /\ filters[1].start_time # <<>> => filters[1].start_time[1].type = "str"
       /\ filters[1].end_time # <<>> => filters[1].end_time[1].type = "str"

\* what does hold: the same, when the time bounds are given as ISO-8601
\* strings in the format the store writes
C2_ExactForIsoTextBounds ==
    (IsQuery /\ TimeBoundsAreText(last.filters))
    => last.matched = {db.rows[i].id : i \in {j \in DOMAIN db.rows : Satisfies(j, last.filters)}}

GroupColumn == IF last.op = "get_top_users" THEN "user_id" ELSE "feature"

\* the rows the query selected, and their groups
MatchedRows == {r \in Range(db.rows) : r.id \in last.matched}
GroupKeys == {r[GroupColumn] : r \in MatchedRows}
GroupOf(key) == {r \in MatchedRows : r[GroupColumn] = key}
GroupTotal(key) == SumCostUsd(GroupOf(key))

\* LIMIT leaves every group in
Untruncated == last.limit < 0 \/ last.limit >= Cardinality(GroupKeys)

\* C3: get_top_users (get_top_features) returns one entry per distinct
\* user_id (feature) among the matching rows, each with the sum of cost_usd
\* and the number of rows of its group, ordered by non-increasing sum.
C3_GroupsSumsCountsOrder ==
    IsTop
    => LET res == last.result.value
       IN  /\ \A i, j \in DOMAIN res : i # j => res[i][1] # res[j][1]
           /\ \A i \in DOMAIN res :
                 /\ res[i][1] \in GroupKeys
                 /\ res[i][2] = GroupTotal(res[i][1])
                 /\ res[i][3] = Cardinality(GroupOf(res[i][1]))
           /\ \A i \in DOMAIN res : i > 1 => res[i - 1][2] >= res[i][2]
           /\ Untruncated => {res[i][1] : i \in DOMAIN res} = GroupKeys

C3_Witness ==
    /\ last.op = "get_top_users"
    /\ last.filters = <<>>
    /\ last.result = Ok(<< <<"bob", 140000, 1>>, <<"alice", 29000, 2>> >>)

\* C4 as stated: for every integer limit the result has at most limit groups
\* (none, for a limit below 0).
C4_AtMostLimit ==
    IsTop => Len(last.result.value) <= (IF last.limit < 0 THEN 0 ELSE last.limit)

\* C4 amended: for a limit >= 0 the result has at most limit groups and no
\* group left out has a larger sum than a group returned; a negative limit
\* leaves no group out.
C4_LimitTruncates ==
    IsTop
    => LET res == last.result.value
           returned == {res[i][1] : i \in DOMAIN res}
       IN  /\ last.limit >= 0 => Len(res) <= last.limit
           /\ \A k \in GroupKeys \ returned :
                 \A i \in DOMAIN res : res[i][2] >= GroupTotal(k)
           /\ last.limit < 0 => returned = GroupKeys

C4_Witness ==
    /\ last.op = "get_top_features"
    /\ last.limit = 1
    /\ Cardinality(GroupKeys) = 2
    /\ Len(last.result.value) = 1

-----------------------------------------------------------------------------
(* Properties of tracker.py, checked under Spec *)

\* the arguments track_manual must reject
NegativeCount(a) == a.tokens_in < 0 \/ a.tokens_out < 0
Rejected(a) == NegativeCount(a) \/ a.latency_ms < 0 \/ ~resolve_model_key(a.model).ok

\* C8: a track_manual call given a negative tokens_in, tokens_out or
\* latency_ms, or a model the resolver cannot match, raises to its caller and
\* leaves every store as it was; a negative count is reported before the
\* model is resolved, whatever the model.
C8_RejectedLeavesStore ==
    [][(last'.op = "track_manual" /\ Rejected(last'.args))
        => /\ ~last'.result.ok
           /\ last'.result.error = "ValueError"
           /\ files' = files
           /\ logged' = logged
           /\ storage' = storage
           /\ NegativeCount(last'.args)
                => last'.result.message = "tokens_in and tokens_out must be non-negative"
           /\ (~NegativeCount(last'.args) /\ last'.args.latency_ms < 0)
                => last'.result.message = "latency_ms must be non-negative"]_vars

C8_Witness ==
    /\ last.op = "track_manual"
    /\ last.args.tokens_in < 0
    /\ ~resolve_model_key(last.args.model).ok
    /\ last.result = Raise("ValueError", "tokens_in and tokens_out must be non-negative")
    /\ storage # <<>>
    /\ Len(files[storage[1]].rows) = 2

\* every row of every database file
AllRows == UNION {Range(files[p].rows) : p \in Paths}

\* C9 as stated: every persisted record has tokens_in, tokens_out, latency_ms
\* and cost_usd >= 0, whichever operation wrote it.
C9_PersistedNonNegative ==
    \A r \in AllRows :
        r.tokens_in >= 0 /\ r.tokens_out >= 0 /\ r.latency_ms >= 0 /\ r.cost_usd >= 0

\* C10 as stated: the cost_usd of every persisted record is calculate_cost of
\* that record's model, tokens_in and tokens_out, whichever operation wrote it.
C10_CostIsCalculated ==
    \A r \in AllRows : calculate_cost(r.model, r.tokens_in, r.tokens_out) = Ok(r.cost_usd)

\* C10 amended: the i-th row of a file is the i-th record logged to it, and
\* its cost_usd is calculate_cost of its model, tokens_in and tokens_out when
\* track_manual or the track_costs wrapper wrote it.
C10_TrackedCostIsCalculated ==
    \A p \in Paths :
        /\ Len(files[p].rows) = Len(logged[p])
        /\ \A i \in DOMAIN files[p].rows :
              LET r == files[p].rows[i]
                  c == logged[p][i].cost_log
              IN  /\ <<r.model, r.tokens_in, r.tokens_out, r.cost_usd>>
                        = <<c.model, c.tokens_in, c.tokens_out, c.cost_usd>>
                  /\ logged[p][i].by \in {"track_manual", "track_costs"}
                       => calculate_cost(r.model, r.tokens_in, r.tokens_out) = Ok(r.cost_usd)

C10_Witness ==
    /\ storage # <<>>
    /\ \E i, j, k \in DOMAIN logged[storage[1]] :
          /\ logged[storage[1]][i].by = "track_manual"
          /\ files[storage[1]].rows[i].cost_usd = MaxTokens * 3000
          /\ logged[storage[1]][j].by = "track_costs"
          /\ files[storage[1]].rows[j].cost_usd = 250 * 15 + 125 * 60
          /\ logged[storage[1]][k].by = "log"
          /\ files[storage[1]].rows[k].cost_usd = 20000

-----------------------------------------------------------------------------
(* Frame properties of storage.py, checked under SpecStorage *)

IsPrefixOf(s, t) == Len(s) <= Len(t) /\ SubSeq(t, 1, Len(s)) = s

\* C11: a row once appended is unchanged and present after every later
\* operation: log adds one row after the rows there were, the three queries
\* leave the store as it was, and constructing SQLiteStorage again on the
\* file or running _init_db again leaves every row as it was.
C11_RowsAreKept ==
    [][/\ \A p \in Paths : IsPrefixOf(files[p].rows, files'[p].rows)
       /\ last'.op = "log" => Len(files'[storage[1]].rows) = Len(db.rows) + 1
       /\ last'.op \in {"get_total_cost", "get_top_users", "get_top_features",
                        "SQLiteStorage", "_init_db"}
            => files' = files]_vars

C11_Witness ==
    /\ last.op \in {"SQLiteStorage", "_init_db"}
    /\ Len(db.rows) = 2
    /\ db.rows[1].user_id = "alice" /\ db.rows[1].id = 1
    /\ db.rows[2].user_id = "bob" /\ db.rows[2].id = 2

-----------------------------------------------------------------------------
(* storage.py called by several threads on one SQLiteStorage.  A step is what
   a thread does between two points where another thread may run: taking
   _lock, one statement on _conn, leaving the with block. *)

Threads == 1 .. MaxThreads

\* Lock.acquire of a `with self._lock` that does not wait for the holder
lock_free_always(l) == TRUE

\* `with self._lock`: Lock.acquire returns when no thread holds the lock
lock_free(l) == l = <<>>

\* what a SELECT through _conn reads: the committed rows and the rows _conn
\* has INSERTed and not committed
RECURSIVE conn_view(_, _)
conn_view(file, pending) ==
    IF pending = <<>> THEN file
    ELSE conn_view(log(file, Head(pending)), Tail(pending))

\* a thread between calls, `done` of its log calls having returned
ThreadIdle(done) == [op |-> "none", at |-> "idle", done |-> done]

RECURSIVE SumDone(_)
SumDone(S) ==
    IF S = {} THEN 0
    ELSE LET t == CHOOSE u \in S : TRUE IN pc[t].done + SumDone(S \ {t})

\* the log calls that have returned
Returned == SumDone(Threads)

\* the threads inside a `with self._lock` block
InBlock == {t \in Threads : pc[t].at \in {"insert", "commit", "execute", "release"}}

\* the records the threads log
ThreadLogs == {c \in CostLogs : c.feature = "chat" /\ c.cost_usd > 0}

\* the log calls that have not INSERTed yet
ToInsert == {t \in Threads : pc[t].op = "log" /\ pc[t].at \in {"acquire", "insert"}}

\* storage.log(cost_log) is called
ThreadCallLog(t) ==
    /\ pc[t].at = "idle"
    /\ Len(db.rows) + Len(txn) + Cardinality(ToInsert) < MaxRows
    /\ \E c \in ThreadLogs :
          pc' = [pc EXCEPT ![t] = [op |-> "log", at |-> "acquire", done |-> pc[t].done,
                                   cost_log |-> c]]
    /\ UNCHANGED <<files, logged, storage, org_id, last, lock, txn, instances>>

\* get_total_cost() or get_top_users(limit) is called: _build_where_clause
\* of no filters, before the lock is taken
ThreadCallQuery(t) ==
    /\ pc[t].at = "idle"
    /\ \E q \in {"get_total_cost", "get_top_users"} :
          pc' = [pc EXCEPT ![t] = [op |-> q, at |-> "acquire", done |-> pc[t].done,
                                   returned_at_call |-> Returned]]
    /\ UNCHANGED <<files, logged, storage, org_id, last, lock, txn, instances>>

\* with self._lock:
ThreadAcquire(t) ==
    /\ pc[t].at = "acquire"
    /\ lock_free(lock)
    /\ lock' = <<t>>
    /\ pc' = [pc EXCEPT ![t].at = IF pc[t].op = "log" THEN "insert" ELSE "execute"]
    /\ UNCHANGED <<files, logged, storage, org_id, last, txn, instances>>

\* cursor.execute(INSERT ...): the row is in _conn's open transaction
ThreadInsert(t) ==
    /\ pc[t].at = "insert"
    /\ txn' = Append(txn, pc[t].cost_log)
    /\ pc' = [pc EXCEPT ![t].at = "commit"]
    /\ UNCHANGED <<files, logged, storage, org_id, last, lock, instances>>

RECURSIVE logged_by_log(_)
logged_by_log(pending) ==
    IF pending = <<>> THEN <<>>
    ELSE <<[by |-> "log", cost_log |-> Head(pending)]>> \o logged_by_log(Tail(pending))

\* self._conn.commit(): every row of the open transaction is in the file
ThreadCommit(t) ==
    /\ pc[t].at = "commit"
    /\ files' = [files EXCEPT ![storage[1]] = conn_view(@, txn)]
    /\ logged' = [logged EXCEPT ![storage[1]] = @ \o logged_by_log(txn)]
    /\ txn' = <<>>
    /\ pc' = [pc EXCEPT ![t].at = "release"]
    /\ UNCHANGED <<storage, org_id, last, lock, instances>>

\* cursor.execute(SELECT ...) and fetchone / fetchall
ThreadExecute(t) ==
    /\ pc[t].at = "execute"
    /\ \E result \in IF pc[t].op = "get_total_cost"
                     THEN {get_total_cost(conn_view(db, txn), <<>>)}
                     ELSE get_top_users(conn_view(db, txn), -1, <<>>) :
          pc' = [pc EXCEPT ![t] = [op |-> pc[t].op, at |-> "release", done |-> pc[t].done,
                                   returned_at_call |-> pc[t].returned_at_call,
                                   committed |-> Len(db.rows),
                                   uncommitted |-> Len(txn),
                                   result |-> result]]
    /\ UNCHANGED <<files, logged, storage, org_id, last, lock, txn, instances>>

\* the with block is left and the call returns
ThreadRelease(t) ==
    /\ pc[t].at = "release"
    /\ lock' = <<>>
    /\ pc' = [pc EXCEPT ![t] = ThreadIdle(pc[t].done + (IF pc[t].op = "log" THEN 1 ELSE 0))]
    /\ UNCHANGED <<files, logged, storage, org_id, last, txn, instances>>

\* storage = SQLiteStorage("costs.db") has been constructed and is shared by
\* the threads
InitThreads ==
    /\ files = [p \in Paths |-> IF p = "costs.db" THEN init_db(NoFile) ELSE NoFile]
    /\ logged = [p \in Paths |-> <<>>]
    /\ storage = <<"costs.db">>
    /\ org_id = "default"
    /\ last = NoCall
    /\ pc = [t \in Threads |-> ThreadIdle(0)]
    /\ lock = <<>>
    /\ txn = <<>>
    /\ instances = <<>>

NextThreads ==
    \E t \in Threads :
        \/ ThreadCallLog(t)
        \/ ThreadCallQuery(t)
        \/ ThreadAcquire(t)
        \/ ThreadInsert(t)
        \/ ThreadCommit(t)
        \/ ThreadExecute(t)
        \/ ThreadRelease(t)

\* one SQLiteStorage called by MaxThreads threads
SpecThreads == InitThreads /\ [][NextThreads]_vars

\* the file as it was when it held its first n rows
FileAt(n) == [db EXCEPT !.rows = SubSeq(db.rows, 1, n), !.seq = n]

\* C12: the threads are in `with self._lock` one at a time; every row INSERTed
\* is committed before the lock is left and no append is lost; a query reads
\* no uncommitted row, and what it returns is the answer for the rows
\* committed when it ran, which hold every append that had returned when it
\* was called.
C12_Linearizable ==
    /\ Cardinality(InBlock) <= 1
    /\ \A t \in InBlock : lock = <<t>>
    /\ Len(db.rows) = Len(logged[storage[1]])
    /\ \A i \in DOMAIN db.rows : db.rows[i] = row_of(logged[storage[1]][i].cost_log, i)
    /\ Len(db.rows) = Returned + Cardinality({t \in Threads : pc[t].op = "log" /\ pc[t].at = "release"})
    /\ \A t \in Threads :
          (pc[t].op \in {"get_total_cost", "get_top_users"} /\ pc[t].at = "release")
          => /\ pc[t].uncommitted = 0
             /\ pc[t].returned_at_call <= pc[t].committed
             /\ pc[t].op = "get_total_cost"
                  => pc[t].result = get_total_cost(FileAt(pc[t].committed), <<>>)
             /\ pc[t].op = "get_top_users"
                  => pc[t].result \in get_top_users(FileAt(pc[t].committed), -1, <<>>)

C12_Witness ==
    \E t, u \in Threads :
        /\ pc[t].op = "get_total_cost" /\ pc[t].at = "release"
        /\ pc[t].returned_at_call = 2
        /\ pc[t].result = SumCostUsd({[i |-> i, cost_usd |-> db.rows[i].cost_usd] : i \in 1 .. 2})
        /\ pc[t].result > 0
        /\ pc[u].op = "log" /\ pc[u].at = "acquire" /\ pc[u].done > 0

-----------------------------------------------------------------------------
(* Properties of the track_costs wrapper, checked under Spec *)

\* the count a usage carries under one of two names
Carried(usage, first, second) ==
    IF usage[first] # <<>> THEN usage[first] ELSE usage[second]

CarriedIn(response) == Carried(response.usage[1], "prompt_tokens", "input_tokens")
CarriedOut(response) == Carried(response.usage[1], "completion_tokens", "output_tokens")

\* a response with a priceable model and non-negative token counts
Priceable(response) ==
    /\ response.kind # "None"
    /\ response.model # <<>>
    /\ resolve_model_key(response.model[1]).ok
    /\ response.usage # <<>>
    /\ CarriedIn(response) # <<>> /\ CarriedOut(response) # <<>>
    /\ CarriedIn(response)[1].int /\ CarriedIn(response)[1].n >= 0
    /\ CarriedOut(response)[1].int /\ CarriedOut(response)[1].n >= 0

\* get_total_cost(filters={"user_id": u, "feature": f})
ByUserAndFeature(u, f) ==
    << [user_id |-> <<Str(u)>>, feature |-> <<Str(f)>>, org_id |-> <<>>, model |-> <<>>,
        start_time |-> <<>>, end_time |-> <<>>] >>

\* this step is a call of a wrapped function that returned a priceable
\* response, made after init_tracker("costs.db", "org-decorator")
TrackedPriceable ==
    /\ last.op = "none" /\ last'.op = "track_costs"
    /\ storage = <<"costs.db">> /\ org_id = "org-decorator"
    /\ ~last'.call.raises
    /\ Priceable(last'.call.response)

\* this step appended one row to the initialized store, for u and f, with the
\* response's model and counts and their calculate_cost, and the total cost
\* of u and f grew by that cost
AppendedOneFor(u, f) ==
    LET response == last'.call.response
        old == files[storage[1]]
        new == files'[storage[1]]
        row == new.rows[Len(new.rows)]
        cost == calculate_cost(response.model[1], CarriedIn(response)[1].n,
                               CarriedOut(response)[1].n)
    IN  /\ storage' = storage
        /\ \A p \in Paths \ {storage[1]} : files'[p] = files[p]
        /\ Len(new.rows) = Len(old.rows) + 1
        /\ SubSeq(new.rows, 1, Len(old.rows)) = old.rows
        /\ row.user_id = u /\ row.feature = f
        /\ row.model = response.model[1]
        /\ row.tokens_in = CarriedIn(response)[1].n
        /\ row.tokens_out = CarriedOut(response)[1].n
        /\ row.org_id = org_id
        /\ cost.ok /\ row.cost_usd = cost.value
        /\ get_total_cost(new, ByUserAndFeature(u, f))
             = get_total_cost(old, ByUserAndFeature(u, f)) + cost.value

\* C13 as stated: the record is attributed to the user_id and feature given
\* to track_costs.
C13_LogsUnderGivenFields ==
    [][TrackedPriceable
        => AppendedOneFor(last'.call.user_id.value, last'.call.feature.value)]_vars

\* C13 amended: the record is attributed to what the user_id and feature
\* given to track_costs resolve to: the string or what the callable returns,
\* and "unknown_user" / "unknown_feature" when that is empty or the callable
\* raises.
C13_LogsUnderResolvedFields ==
    [][TrackedPriceable
        => AppendedOneFor(resolve_field(last'.call.user_id, "unknown_user"),
                          resolve_field(last'.call.feature, "unknown_feature"))]_vars

C13_Witness ==
    /\ last.op = "track_costs"
    /\ last.call.user_id = Literal("user-1")
    /\ last.call.response.model = <<"claude-sonnet-3.5">>
    /\ storage = <<"costs.db">>
    /\ Len(db.rows) = 2
    /\ db.rows[2].user_id = "user-1" /\ db.rows[2].feature = "chat"
    /\ db.rows[2].tokens_in = 400 /\ db.rows[2].tokens_out = 90
    /\ db.rows[2].cost_usd = 400 * 300 + 90 * 1500
    /\ db.rows[2].org_id = "org-decorator"
    /\ db.rows[1].user_id = "user-1"
    /\ get_total_cost(db, ByUserAndFeature("user-1", "chat"))
         = db.rows[1].cost_usd + db.rows[2].cost_usd

\* the failures of the cost-computation-and-log path
\* a dict without "usage" is read as a usage of zero tokens
MissingUsage(response) ==
    response.kind = "None" \/ (response.kind = "object" /\ response.usage = <<>>)

UnsupportedModel(response) ==
    response.model = <<>> \/ ~resolve_model_key(response.model[1]).ok

NegativeCounts(response) ==
    /\ response.usage # <<>>
    /\ \/ CarriedIn(response) # <<>> /\ CarriedIn(response)[1].int /\ CarriedIn(response)[1].n < 0
       \/ CarriedOut(response) # <<>> /\ CarriedOut(response)[1].int /\ CarriedOut(response)[1].n < 0

CannotBeCosted(response) ==
    MissingUsage(response) \/ UnsupportedModel(response) \/ NegativeCounts(response)

ResolverFails(d) ==
    d.user_id.raises \/ d.feature.raises \/ (d.metadata # <<>> /\ d.metadata[1].raises)

\* this step is a call of a function decorated with track_costs
TrackedCall == last.op = "none" /\ last'.op = "track_costs"

NothingAppended == files' = files /\ logged' = logged

\* the wrapped function raised: the exception reaches the caller and nothing
\* is appended; it returned: the caller gets what it returned
WrapperIsTransparent ==
    IF last'.call.raises
    THEN ~last'.result.ok /\ NothingAppended /\ storage' = storage
    ELSE last'.result = Ok(last'.call.response)

-----------------------------------------------------------------------------
(* tracker.py called by several threads.  _storage is <<>> (None) or
   <<db_path, n>> for the n-th SQLiteStorage constructed.  A step is what a
   thread does between two points where another thread may run: reading
   the global _storage, constructing a SQLiteStorage (which opens the file),
   assigning the global. *)

GlobalIdle == [op |-> "none", at |-> "idle", new |-> 0, got |-> 0]

\* the calls that have not constructed or logged yet
Constructing == {t \in Threads : pc[t].op = "init_tracker" /\ pc[t].at = "construct"}
ToLog == {t \in Threads : pc[t].op = "track_manual" /\ pc[t].at \in {"test", "construct", "store", "load", "log"}}

\* the CostLog track_manual("alice", "chat", "gpt-4-0125-preview", MaxTokens, 0, 7) builds
ThreadEntry ==
    CostLog("alice", "chat", "gpt-4-0125-preview", MaxTokens, 0,
            calculate_cost("gpt-4-0125-preview", MaxTokens, 0).value, 7, T2, org_id, <<>>)

\* get_storage() is called, by the thread or by its track_manual
GlobalCallGetStorage(t) ==
    /\ pc[t].at \in {"idle", "returned"}
    /\ \E op \in {"get_storage", "track_manual"} :
          /\ op = "track_manual" => CountRows(files, Paths) + Cardinality(ToLog) < MaxRows
          /\ pc' = [pc EXCEPT ![t] = [op |-> op, at |-> "test", new |-> 0, got |-> 0]]
    /\ UNCHANGED <<files, logged, storage, org_id, last, lock, txn, instances>>

\* init_tracker("costs.db", "org-decorator") is called
GlobalCallInitTracker(t) ==
    /\ pc[t].at \in {"idle", "returned"}
    /\ Len(instances) + Cardinality(Constructing) < MaxRows
    /\ pc' = [pc EXCEPT ![t] = [op |-> "init_tracker", at |-> "construct", new |-> 0, got |-> 0]]
    /\ UNCHANGED <<files, logged, storage, org_id, last, lock, txn, instances>>

\* if _storage is None:
GlobalTest(t) ==
    /\ pc[t].at = "test"
    /\ pc' = [pc EXCEPT ![t].at = IF storage = <<>> THEN "construct" ELSE "load"]
    /\ UNCHANGED <<files, logged, storage, org_id, last, lock, txn, instances>>

\* SQLiteStorage("ai_cost_tracker.db") in get_storage, SQLiteStorage(storage_path)
\* in init_tracker
GlobalConstruct(t) ==
    /\ pc[t].at = "construct"
    /\ \E db_path \in {IF pc[t].op = "init_tracker" THEN "costs.db" ELSE DefaultPath} :
          /\ files' = SQLiteStorage(files, db_path)
          /\ instances' = Append(instances, [db_path |-> db_path, by |-> pc[t].op])
    /\ pc' = [pc EXCEPT ![t].at = "store", ![t].new = Len(instances) + 1]
    /\ UNCHANGED <<logged, storage, org_id, last, lock, txn>>

\* _storage = <the instance constructed>; init_tracker goes on to _org_id = org_id
GlobalStore(t) ==
    /\ pc[t].at = "store"
    /\ storage' = <<instances[pc[t].new].db_path, pc[t].new>>
    /\ org_id' = IF pc[t].op = "init_tracker" THEN "org-decorator" ELSE org_id
    /\ pc' = [pc EXCEPT ![t].at = "load"]
    /\ UNCHANGED <<files, logged, last, lock, txn, instances>>

\* return _storage
GlobalLoad(t) ==
    /\ pc[t].at = "load"
    /\ pc' = [pc EXCEPT ![t].got = storage[2],
                        ![t].at = IF pc[t].op = "track_manual" THEN "log" ELSE "returned"]
    /\ UNCHANGED <<files, logged, storage, org_id, last, lock, txn, instances>>

\* get_storage().log(entry) of track_manual, on the instance it obtained
GlobalLog(t) ==
    /\ pc[t].at = "log"
    /\ \E db_path \in {instances[pc[t].got].db_path} :
          /\ files' = [files EXCEPT ![db_path] = log(@, ThreadEntry)]
          /\ logged' = [logged EXCEPT ![db_path] =
                           Append(@, [by |-> "track_manual", cost_log |-> ThreadEntry])]
    /\ pc' = [pc EXCEPT ![t].at = "returned"]
    /\ UNCHANGED <<storage, org_id, last, lock, txn, instances>>

\* no storage has been made yet and MaxThreads threads are about to call
InitGlobal ==
    /\ files = [p \in Paths |-> NoFile]
    /\ logged = [p \in Paths |-> <<>>]
    /\ storage = <<>>
    /\ org_id = "default"
    /\ last = NoCall
    /\ pc = [t \in Threads |-> GlobalIdle]
    /\ lock = <<>>
    /\ txn = <<>>
    /\ instances = <<>>

NextGlobal ==
    \E t \in Threads :
        \/ GlobalCallGetStorage(t)
        \/ GlobalCallInitTracker(t)
        \/ GlobalTest(t)
        \/ GlobalConstruct(t)
        \/ GlobalStore(t)
        \/ GlobalLoad(t)
        \/ GlobalLog(t)

\* the tracker's global storage used by MaxThreads threads
SpecGlobal == InitGlobal /\ [][NextGlobal]_vars

\* the instances get_storage constructed
Lazy == {i \in DOMAIN instances : instances[i].by # "init_tracker"}

\* C15 as stated: get_storage constructs at most one instance, and as long
\* as init_tracker has constructed none every thread that has returned from
\* get_storage holds the same instance.
C15_OneLazyInstance ==
    /\ Cardinality(Lazy) <= 1
    /\ Lazy = DOMAIN instances
         => \A t, u \in Threads :
               (pc[t].at = "returned" /\ pc[u].at = "returned") => pc[t].got = pc[u].got

=============================================================================
